---- MODULE Spec2Model ----
(***************************************************************************)
(* Model of src/Spark_job_Schedule.py: the Timeline State (class Spark),   *)
(* its transitions schedule and tick, the branching nextStates, the        *)
(* exploration driver simulate and the nine scheduling policies.           *)
(*                                                                         *)
(* A Python dict is modelled as the sequence of its items in insertion     *)
(* order: an item is [app |-> id, value |-> <<v0, v1>>].  A Fraction is    *)
(* the pair <<numerator, denominator>> in lowest terms, denominator > 0.   *)
(* An App is [id, duration, deadline]; App.__eq__/__hash__ use the id, so  *)
(* dict keys are ids.                                                      *)
(***************************************************************************)
EXTENDS Integers, Sequences, FiniteSets, TLC

\* ---------------------------------------------------------------- bounds
\* the inputs explored: job lists of at most MaxJobs jobs and horizons steps
\* with Len(apps) + steps <= MaxSize
MaxJobs == 3
MaxSize == 4
MaxDuration == 2

VARIABLES
    apps,          \* the job list handed to simulate / computeMetrics
    steps,         \* the horizon
    scheduler,     \* the one policy instance every Spark of a run refers to
    initial,       \* the seed state handed to simulate
    states,        \* simulate: the local `states`
    newStates,     \* simulate: the local `newStates`
    pending,       \* simulate: members of `states` the inner for loop has not visited yet
    t,             \* simulate: the loop variable t
    pc,            \* simulate: "loop", "done" (returned) or "raised" (exception left simulate)
    state,         \* single timeline: the current Spark
    pos,           \* single timeline: position in apps of the nextStates recursion
    last,          \* single timeline: the last schedule / tick call made and its result
    log            \* single timeline: what each tick so far was given and whom it served

vars == <<apps, steps, scheduler, initial, states, newStates, pending, t, pc, state, pos, last,
         log>>

\* -------------------------------------------------------------- fractions
RECURSIVE GCD(_, _)
GCD(a, b) == IF b = 0 THEN a ELSE GCD(b, a % b)

Abs(n) == IF n < 0 THEN -n ELSE n

Fraction(n, d) ==
    LET g == GCD(Abs(n), d)
    IN  <<n \div g, d \div g>>

FracAdd(a, b) == Fraction(a[1] * b[2] + b[1] * a[2], a[2] * b[2])

FracSub(a, b) == Fraction(a[1] * b[2] - b[1] * a[2], a[2] * b[2])

FracMulInt(a, k) == Fraction(a[1] * k, a[2])

FracDivInt(a, k) == Fraction(a[1], a[2] * k)

FracLt(a, b) == a[1] * b[2] < b[1] * a[2]

FracGeOne(a) == a[1] >= a[2]

\* ------------------------------------------------------------------- App
App(id, duration, deadline) == [id |-> id, duration |-> duration, deadline |-> deadline]

nominalRate(app) == Fraction(1, app.duration)

\* ------------------------------------------------------------ dict helpers
Keys(d) == {d[i].app : i \in DOMAIN d}

KeyList(d) == [i \in DOMAIN d |-> d[i].app]

Has(d, k) == \E i \in DOMAIN d : d[i].app = k

IndexOf(d, k) == CHOOSE i \in DOMAIN d : d[i].app = k

Get(d, k) == d[IndexOf(d, k)].value

\* d[k] = v : an existing key keeps its position, a new key goes last
Put(d, k, v) ==
    IF Has(d, k)
    THEN [d EXCEPT ![IndexOf(d, k)] = [app |-> k, value |-> v]]
    ELSE Append(d, [app |-> k, value |-> v])

\* del d[k] for every k in ks
RECURSIVE DelAll(_, _)
DelAll(d, ks) ==
    IF d = <<>> THEN <<>>
    ELSE IF Head(d).app \in ks THEN DelAll(Tail(d), ks)
         ELSE <<Head(d)>> \o DelAll(Tail(d), ks)

\* dict equality ignores insertion order
DictEq(d, e) ==
    /\ Keys(d) = Keys(e)
    /\ \A k \in Keys(d) : Get(d, k) = Get(e, k)

AppOf(k) == apps[k]

\* the builtin min(iterable, key=...): the index of the first item, in
\* iteration order, whose key no other key is less than (integer keys)
FirstMin(keys) ==
    CHOOSE i \in DOMAIN keys :
        /\ \A j \in DOMAIN keys : ~(keys[j] < keys[i])
        /\ \A j \in 1..(i - 1) : keys[i] < keys[j]

\* the same for Fraction keys
FirstMinFraction(keys) ==
    CHOOSE i \in DOMAIN keys :
        /\ \A j \in DOMAIN keys : ~FracLt(keys[j], keys[i])
        /\ \A j \in 1..(i - 1) : FracLt(keys[i], keys[j])

\* the builtin max(iterable, key=...): the first item no other key is greater than
FirstMax(keys) ==
    CHOOSE i \in DOMAIN keys :
        /\ \A j \in DOMAIN keys : ~(keys[j] > keys[i])
        /\ \A j \in 1..(i - 1) : keys[i] > keys[j]

\* running[app] = (running[app][0], running[app][1] + delta), app the i-th key
\* variant of AddTo: the tuple is built as (running[app][0], delta)
AddTo_Overwrites(running, i, delta) ==
    [running EXCEPT ![i] = [app |-> @.app, value |-> <<@.value[1], delta>>]]

AddTo(running, i, delta) ==
    [running EXCEPT ![i] = [app |-> @.app, value |-> <<@.value[1], FracAdd(@.value[2], delta)>>]]

\* what an addProgress call leaves behind: the mutated dict, the mutated
\* policy object, and whether the call raised
Outcome(running, sch, raised) == [running |-> running, scheduler |-> sch, raised |-> raised]

\* ------------------------------------------------------- policy instances
NoParams(kind) ==
    [kind |-> kind, time_slice |-> 0, last_index |-> -1, priorities |-> <<>>,
     num_queues |-> 0, time_slices |-> <<>>, queues |-> <<>>, app_queue |-> <<>>]

NewRoundRobin(time_slice) == [NoParams("RoundRobin") EXCEPT !.time_slice = time_slice]

NewPriorityScheduler(priorities) == [NoParams("PriorityScheduler") EXCEPT !.priorities = priorities]

NewMultilevelFeedbackQueue(num_queues, time_slices) ==
    [NoParams("MultilevelFeedbackQueue") EXCEPT
        !.num_queues = num_queues,
        !.time_slices = time_slices,
        !.queues = [i \in 1..num_queues |-> <<>>]]

\* ---------------------------------------------------------------- policies
\* variant of FIFO_addProgress: on ties the last job of the enumeration is taken
FIFO_addProgress_LastOnTies(sch, running, time) ==
    IF running = <<>> THEN Outcome(running, sch, FALSE)
    ELSE LET keys == [i \in DOMAIN running |-> running[i].value[1]]
             first_app == CHOOSE i \in DOMAIN keys :
                              /\ \A j \in DOMAIN keys : ~(keys[j] < keys[i])
                              /\ \A j \in (i + 1)..Len(keys) : keys[i] < keys[j]
         IN  Outcome(AddTo(running, first_app, nominalRate(AppOf(running[first_app].app))), sch, FALSE)

FIFO_addProgress(sch, running, time) ==
    IF running = <<>> THEN Outcome(running, sch, FALSE)
    ELSE LET first_app == FirstMin([i \in DOMAIN running |-> running[i].value[1]])
         IN  Outcome(AddTo(running, first_app, nominalRate(AppOf(running[first_app].app))), sch, FALSE)

Fair_addProgress(sch, running, time) ==
    IF running = <<>> THEN Outcome(running, sch, FALSE)
    ELSE LET cnt == Len(running)
         IN  Outcome([i \in DOMAIN running |->
                        AddTo(running, i, FracDivInt(nominalRate(AppOf(running[i].app)), cnt))[i]],
                     sch, FALSE)

\* variant of EDFAll_addProgress: only the first running job is served
EDFAll_addProgress_OnlyFirst(sch, running, time) ==
    IF running = <<>> THEN Outcome(running, sch, FALSE)
    ELSE Outcome(AddTo(running, 1, nominalRate(AppOf(running[1].app))), sch, FALSE)

EDFAll_addProgress(sch, running, time) ==
    IF running = <<>> THEN Outcome(running, sch, FALSE)
    ELSE Outcome([i \in DOMAIN running |->
                    AddTo(running, i, nominalRate(AppOf(running[i].app)))[i]],
                 sch, FALSE)

EDFPure_addProgress(sch, running, time) ==
    IF running = <<>> THEN Outcome(running, sch, FALSE)
    ELSE LET earliest_app == FirstMin([i \in DOMAIN running |-> AppOf(running[i].app).deadline])
         IN  Outcome(AddTo(running, earliest_app, nominalRate(AppOf(running[earliest_app].app))), sch, FALSE)

RoundRobin_addProgress(sch, running, time) ==
    LET apps_list == KeyList(running)
    IN  IF apps_list = <<>> THEN Outcome(running, sch, FALSE)
        ELSE LET last_index == (sch.last_index + 1) % Len(apps_list)
                 app == last_index + 1      \* apps_list[last_index], 0-based
             IN  Outcome(AddTo(running, app,
                               FracMulInt(nominalRate(AppOf(apps_list[app])), sch.time_slice)),
                         [sch EXCEPT !.last_index = last_index], FALSE)

ShortestJobNext_addProgress(sch, running, time) ==
    IF running = <<>> THEN Outcome(running, sch, FALSE)
    ELSE LET shortest_app == FirstMin([i \in DOMAIN running |-> AppOf(running[i].app).duration])
         IN  Outcome(AddTo(running, shortest_app, nominalRate(AppOf(running[shortest_app].app))), sch, FALSE)

laxity(running, i, time) ==
    LET remaining_time == FracSub(Fraction(1, 1), running[i].value[2])
    IN  FracSub(Fraction(AppOf(running[i].app).deadline - time, 1), remaining_time)

LeastLaxityFirst_addProgress(sch, running, time) ==
    IF running = <<>> THEN Outcome(running, sch, FALSE)
    ELSE LET least_lax_app == FirstMinFraction([i \in DOMAIN running |-> laxity(running, i, time)])
         IN  Outcome(AddTo(running, least_lax_app, nominalRate(AppOf(running[least_lax_app].app))), sch, FALSE)

\* max() evaluates self.priorities[app] for every running app: a missing key
\* raises KeyError before anything is written
\* variant of PriorityScheduler_addProgress: the key is self.priorities.get(app, 0)
PriorityScheduler_addProgress_Defaults(sch, running, time) ==
    IF running = <<>> THEN Outcome(running, sch, FALSE)
    ELSE LET highest_priority_app ==
                 FirstMax([i \in DOMAIN running |->
                              IF Has(sch.priorities, running[i].app)
                              THEN Get(sch.priorities, running[i].app) ELSE 0])
         IN  Outcome(AddTo(running, highest_priority_app,
                           nominalRate(AppOf(running[highest_priority_app].app))), sch, FALSE)

PriorityScheduler_addProgress(sch, running, time) ==
    IF running = <<>> THEN Outcome(running, sch, FALSE)
    ELSE IF \E i \in DOMAIN running : ~Has(sch.priorities, running[i].app)
         THEN Outcome(running, sch, TRUE)
         ELSE LET highest_priority_app ==
                      FirstMax([i \in DOMAIN running |-> Get(sch.priorities, running[i].app)])
              IN  Outcome(AddTo(running, highest_priority_app,
                                nominalRate(AppOf(running[highest_priority_app].app))), sch, FALSE)

\* list.remove(x): drops the first occurrence
RECURSIVE RemoveFirst(_, _)
RemoveFirst(q, x) ==
    IF q = <<>> THEN <<>>
    ELSE IF Head(q) = x THEN Tail(q)
         ELSE <<Head(q)>> \o RemoveFirst(Tail(q), x)

InList(q, x) == \E i \in DOMAIN q : q[i] = x

\* lines 945-950: forget the tracked apps that are no longer in running
\* variant of MLFQ_purge: lines 948-949 are left out
RECURSIVE MLFQ_purge_KeepsQueue(_, _, _)
MLFQ_purge_KeepsQueue(keys, sch, running) ==
    IF keys = <<>> THEN sch
    ELSE LET app == Head(keys)
         IN  IF Has(running, app) THEN MLFQ_purge_KeepsQueue(Tail(keys), sch, running)
             ELSE MLFQ_purge_KeepsQueue(Tail(keys),
                                        [sch EXCEPT !.app_queue = DelAll(@, {app})],
                                        running)

RECURSIVE MLFQ_purge(_, _, _)
MLFQ_purge(keys, sch, running) ==
    IF keys = <<>> THEN sch
    ELSE LET app == Head(keys)
         IN  IF Has(running, app) THEN MLFQ_purge(Tail(keys), sch, running)
             ELSE LET queue_idx == Get(sch.app_queue, app)
                      queues == IF InList(sch.queues[queue_idx + 1], app)
                                THEN [sch.queues EXCEPT ![queue_idx + 1] = RemoveFirst(@, app)]
                                ELSE sch.queues
                  IN  MLFQ_purge(Tail(keys),
                                 [sch EXCEPT !.queues = queues,
                                             !.app_queue = DelAll(@, {app})],
                                 running)

\* lines 953-956: untracked running apps enter queue 0
RECURSIVE MLFQ_admit(_, _)
MLFQ_admit(keys, sch) ==
    IF keys = <<>> THEN sch
    ELSE LET app == Head(keys)
         IN  IF Has(sch.app_queue, app) THEN MLFQ_admit(Tail(keys), sch)
             ELSE MLFQ_admit(Tail(keys),
                             [sch EXCEPT !.queues[1] = Append(@, app),
                                         !.app_queue = Put(@, app, 0)])

\* lines 959-973: serve the head of the first non-empty queue
\* variant of MLFQ_serve: line 968 is next_queue = i
MLFQ_serve_NoDemotion(sch, running) ==
    IF \A q \in DOMAIN sch.queues : sch.queues[q] = <<>> THEN Outcome(running, sch, FALSE)
    ELSE LET q == CHOOSE q \in DOMAIN sch.queues :
                      sch.queues[q] # <<>> /\ \A p \in 1..(q - 1) : sch.queues[p] = <<>>
             i == q - 1
             app == Head(sch.queues[q])
             popped == [sch EXCEPT !.queues[q] = Tail(@)]
         IN  IF ~Has(running, app) THEN Outcome(running, popped, FALSE)
             ELSE LET progress_increment == FracMulInt(nominalRate(AppOf(app)), sch.time_slices[q])
                      served == AddTo(running, IndexOf(running, app), progress_increment)
                  IN  IF ~FracGeOne(Get(served, app)[2])
                      THEN Outcome(served,
                                   [popped EXCEPT !.queues[i + 1] = Append(@, app),
                                                  !.app_queue = Put(@, app, i)],
                                   FALSE)
                      ELSE IF Has(popped.app_queue, app)
                           THEN Outcome(served, [popped EXCEPT !.app_queue = DelAll(@, {app})], FALSE)
                           ELSE Outcome(served, popped, TRUE)

MLFQ_serve(sch, running) ==
    IF \A q \in DOMAIN sch.queues : sch.queues[q] = <<>> THEN Outcome(running, sch, FALSE)
    ELSE LET q == CHOOSE q \in DOMAIN sch.queues :
                      sch.queues[q] # <<>> /\ \A p \in 1..(q - 1) : sch.queues[p] = <<>>
             i == q - 1
             app == Head(sch.queues[q])
             popped == [sch EXCEPT !.queues[q] = Tail(@)]
         IN  IF ~Has(running, app) THEN Outcome(running, popped, FALSE)
             ELSE LET progress_increment == FracMulInt(nominalRate(AppOf(app)), sch.time_slices[q])
                      served == AddTo(running, IndexOf(running, app), progress_increment)
                  IN  IF ~FracGeOne(Get(served, app)[2])
                      THEN LET next_queue == IF i + 1 < sch.num_queues - 1 THEN i + 1
                                             ELSE sch.num_queues - 1
                           IN  Outcome(served,
                                       [popped EXCEPT !.queues[next_queue + 1] = Append(@, app),
                                                      !.app_queue = Put(@, app, next_queue)],
                                       FALSE)
                      ELSE IF Has(popped.app_queue, app)
                           THEN Outcome(served, [popped EXCEPT !.app_queue = DelAll(@, {app})], FALSE)
                           ELSE Outcome(served, popped, TRUE)     \* del of a missing key

MultilevelFeedbackQueue_addProgress(sch, running, time) ==
    IF running = <<>> THEN Outcome(running, sch, FALSE)
    ELSE LET purged == MLFQ_purge(KeyList(sch.app_queue), sch, running)
             admitted == MLFQ_admit(KeyList(running), purged)
         IN  MLFQ_serve(admitted, running)

\* the dynamic dispatch of self.scheduler.addProgress(running, time)
addProgress(sch, running, time) ==
    CASE sch.kind = "FIFO" -> FIFO_addProgress(sch, running, time)
      [] sch.kind = "Fair" -> Fair_addProgress(sch, running, time)
      [] sch.kind = "EDFAll" -> EDFAll_addProgress(sch, running, time)
      [] sch.kind = "EDFPure" -> EDFPure_addProgress(sch, running, time)
      [] sch.kind = "RoundRobin" -> RoundRobin_addProgress(sch, running, time)
      [] sch.kind = "ShortestJobNext" -> ShortestJobNext_addProgress(sch, running, time)
      [] sch.kind = "LeastLaxityFirst" -> LeastLaxityFirst_addProgress(sch, running, time)
      [] sch.kind = "PriorityScheduler" -> PriorityScheduler_addProgress(sch, running, time)
      [] sch.kind = "MultilevelFeedbackQueue" -> MultilevelFeedbackQueue_addProgress(sch, running, time)

\* ------------------------------------------------------------------ Spark
\* Spark.__init__: the two dicts are copied; the scheduler is a reference to
\* the one policy object, held in the variable scheduler
Spark(running, ended) == [running |-> running, ended |-> ended]

\* Spark.__repr__, which __hash__ hashes: the items of both dicts in order
Repr(s) == <<s.running, s.ended>>

\* Spark.__eq__
\* variant of SparkEq: only the running mappings are compared
SparkEq_RunningOnly(s, o) == DictEq(s.running, o.running)

SparkEq(s, o) == DictEq(s.running, o.running) /\ DictEq(s.ended, o.ended)

\* variant of schedule: the predecessor loop (lines 719-724) is left out
schedule_IgnoresPredecessor(self, app, time) ==
    IF Has(self.running, app.id) \/ Has(self.ended, app.id) THEN self
    ELSE Spark(Put(self.running, app.id, <<time, Fraction(0, 1)>>), self.ended)

\* variant of schedule: line 726 starts from an empty dict instead of a copy
schedule_FreshRunning(self, app, time) ==
    IF Has(self.running, app.id) \/ Has(self.ended, app.id) THEN self
    ELSE LET all_apps == KeyList(self.running) \o KeyList(self.ended)
         IN  IF ~\E i \in DOMAIN all_apps : AppOf(all_apps[i]).id = app.id - 1
             THEN self
             ELSE Spark(Put(<<>>, app.id, <<time, Fraction(0, 1)>>), self.ended)

schedule(self, app, time) ==
    IF Has(self.running, app.id) \/ Has(self.ended, app.id) THEN self
    ELSE LET all_apps == KeyList(self.running) \o KeyList(self.ended)
         IN  IF ~\E i \in DOMAIN all_apps : AppOf(all_apps[i]).id = app.id - 1
             THEN self
             ELSE Spark(Put(self.running, app.id, <<time, Fraction(0, 1)>>), self.ended)

\* lines 738-740: ended[app] = (value[0], time) for the items with value[1] >= 1
\* variant of Promote: line 739 tests value[1] > 1
RECURSIVE Promote_StrictlyAboveOne(_, _, _)
Promote_StrictlyAboveOne(items, ended, time) ==
    IF items = <<>> THEN ended
    ELSE LET app == Head(items).app
             value == Head(items).value
         IN  Promote_StrictlyAboveOne(Tail(items),
                     IF value[2][1] > value[2][2] THEN Put(ended, app, <<value[1], time>>) ELSE ended,
                     time)

\* variant of Promote: line 740 records (time, time)
RECURSIVE Promote_StampsTime(_, _, _)
Promote_StampsTime(items, ended, time) ==
    IF items = <<>> THEN ended
    ELSE LET app == Head(items).app
             value == Head(items).value
         IN  Promote_StampsTime(Tail(items),
                     IF FracGeOne(value[2]) THEN Put(ended, app, <<time, time>>) ELSE ended,
                     time)

RECURSIVE Promote(_, _, _)
Promote(items, ended, time) ==
    IF items = <<>> THEN ended
    ELSE LET app == Head(items).app
             value == Head(items).value
         IN  Promote(Tail(items),
                     IF FracGeOne(value[2]) THEN Put(ended, app, <<value[1], time>>) ELSE ended,
                     time)

\* tick returns the new Spark; the record also carries what the call did to
\* the policy object, whether it raised, and how often it called addProgress
TickResult(s, sch, raised, calls) ==
    [state |-> s, scheduler |-> sch, raised |-> raised, calls |-> calls]

\* variant of tick: lines 741-743 are left out
tick_KeepsRunning(self, sch, time) ==
    IF self.running = <<>> THEN TickResult(self, sch, FALSE, 0)
    ELSE LET out == addProgress(sch, self.running, time)
         IN  IF out.raised THEN TickResult(self, out.scheduler, TRUE, 1)
             ELSE TickResult(Spark(out.running, Promote(out.running, self.ended, time)),
                             out.scheduler, FALSE, 1)

\* variant of tick: the early return of lines 731-732 is left out
tick_NoEmptyCheck(self, sch, time) ==
    LET out == addProgress(sch, self.running, time)
    IN  IF out.raised THEN TickResult(self, out.scheduler, TRUE, 1)
        ELSE LET ended == Promote(out.running, self.ended, time)
                 running == DelAll(out.running, Keys(ended))
             IN  TickResult(Spark(running, ended), out.scheduler, FALSE, 1)

tick(self, sch, time) ==
    IF self.running = <<>> THEN TickResult(self, sch, FALSE, 0)
    ELSE LET out == addProgress(sch, self.running, time)
         IN  IF out.raised THEN TickResult(self, out.scheduler, TRUE, 1)
             ELSE LET ended == Promote(out.running, self.ended, time)
                      running == DelAll(out.running, Keys(ended))
                  IN  TickResult(Spark(running, ended), out.scheduler, FALSE, 1)

\* The dict objects a schedule call touches, by name: the receiver's two
\* dicts and the local `running` of line 726, which dict(...) makes a new
\* object.  The write of line 727 goes to the local; the result is the
\* receiver's own dicts when the call has returned.
\* variant of schedule_receiver: line 726 binds self.running itself
schedule_receiver_Aliased(self, app, time) ==
    LET result == schedule(self, app, time)
    IN  IF result = self THEN self ELSE Spark(result.running, self.ended)

schedule_receiver(self, app, time) ==
    LET objects == [self_running |-> self.running, self_ended |-> self.ended,
                    running |-> self.running]
        all_apps == KeyList(objects.self_running) \o KeyList(objects.self_ended)
        returns_self ==
            \/ Has(objects.self_running, app.id)
            \/ Has(objects.self_ended, app.id)
            \/ ~\E i \in DOMAIN all_apps : AppOf(all_apps[i]).id = app.id - 1
        written == IF returns_self THEN objects
                   ELSE [objects EXCEPT !.running = Put(@, app.id, <<time, Fraction(0, 1)>>)]
    IN  Spark(written.self_running, written.self_ended)

\* The same for tick: lines 734-735 make the locals `running` and `ended` new
\* objects; addProgress (line 736) and lines 738-743 write the locals only.
\* variant of tick_receiver: line 734 binds self.running itself
tick_receiver_Aliased(self, sch, time) ==
    IF self.running = <<>> THEN self
    ELSE LET out == addProgress(sch, self.running, time)
         IN  IF out.raised THEN Spark(out.running, self.ended)
             ELSE Spark(DelAll(out.running, Keys(Promote(out.running, self.ended, time))),
                        self.ended)

tick_receiver(self, sch, time) ==
    LET objects == [self_running |-> self.running, self_ended |-> self.ended,
                    running |-> self.running, ended |-> self.ended]
    IN  IF objects.self_running = <<>> THEN Spark(objects.self_running, objects.self_ended)
        ELSE LET out == addProgress(sch, objects.running, time)
                 progressed == [objects EXCEPT !.running = out.running]
                 promoted == IF out.raised THEN progressed
                             ELSE [progressed EXCEPT
                                      !.ended = Promote(progressed.running, @, time)]
                 deleted == IF out.raised THEN promoted
                            ELSE [promoted EXCEPT !.running = DelAll(@, Keys(promoted.ended))]
             IN  Spark(deleted.self_running, deleted.self_ended)

\* lines 798-803
\* variant of nextStates: the right operand of line 803 is left out
RECURSIVE nextStates_AlwaysSchedules(_, _, _)
nextStates_AlwaysSchedules(appList, st, time) ==
    IF appList = <<>> THEN {st}
    ELSE nextStates_AlwaysSchedules(Tail(appList), schedule(st, Head(appList), time), time)

RECURSIVE nextStates(_, _, _)
nextStates(appList, st, time) ==
    IF appList = <<>> THEN {st}
    ELSE LET app == Head(appList)
             state_sched == schedule(st, app, time)
         IN  nextStates(Tail(appList), state_sched, time) \cup nextStates(Tail(appList), st, time)

\* ------------------------------------------------------------- classifier
computeViolations(self, appList, horizon) ==
    \E i \in DOMAIN appList :
        /\ Has(self.ended, appList[i].id)
        /\ Get(self.ended, appList[i].id)[2] - Get(self.ended, appList[i].id)[1] > appList[i].deadline

\* lines 767-773: a job that never arrived, or a running job that cannot
\* finish inside the horizon
\* variant of computeUnfeasibility: lines 771-772 are left out
computeUnfeasibility_MissingOnly(self, appList, horizon) ==
    \E i \in DOMAIN appList :
        ~Has(self.ended, appList[i].id) /\ ~Has(self.running, appList[i].id)

computeUnfeasibility(self, appList, horizon) ==
    \E i \in DOMAIN appList :
        \/ ~Has(self.ended, appList[i].id) /\ ~Has(self.running, appList[i].id)
        \/ /\ Has(self.running, appList[i].id)
           /\ Get(self.running, appList[i].id)[1] + appList[i].duration > horizon

\* lines 775-782
\* variant of computeScenarioViolations: lines 776-777 are left out
computeScenarioViolations_NoGuard(self, appList, horizon) ==
    \E i \in DOMAIN appList :
        /\ ~Has(self.ended, appList[i].id)
        /\ Has(self.running, appList[i].id)
        /\ Get(self.running, appList[i].id)[1] + appList[i].duration <= horizon

computeScenarioViolations(self, appList, horizon) ==
    IF computeViolations(self, appList, horizon) \/ computeUnfeasibility(self, appList, horizon)
    THEN FALSE
    ELSE \E i \in DOMAIN appList :
             /\ ~Has(self.ended, appList[i].id)
             /\ Has(self.running, appList[i].id)
             /\ Get(self.running, appList[i].id)[1] + appList[i].duration <= horizon

\* lines 784-787
computeNonViolations(self, appList, horizon) ==
    /\ ~computeViolations(self, appList, horizon)
    /\ ~computeScenarioViolations(self, appList, horizon)
    /\ ~computeUnfeasibility(self, appList, horizon)

\* ---------------------------------------------------------------- metrics
\* the (state, job) pairs the double loop of lines 820-831 counts
EndedTasks(sts, appList) ==
    {pair \in sts \X DOMAIN appList : Has(pair[1].ended, appList[pair[2]].id)}

\* variant of OnTimeTasks: line 830 tests turnaround < app.deadline
OnTimeTasks_Strict(sts, appList) ==
    {pair \in EndedTasks(sts, appList) :
        LET value == Get(pair[1].ended, appList[pair[2]].id)
        IN  value[2] - value[1] < appList[pair[2]].deadline}

\* line 830: turnaround <= app.deadline
OnTimeTasks(sts, appList) ==
    {pair \in EndedTasks(sts, appList) :
        LET value == Get(pair[1].ended, appList[pair[2]].id)
        IN  value[2] - value[1] <= appList[pair[2]].deadline}

\* count / total * 100, exact where the code rounds to a float
Percent(count, total) == Fraction(count * 100, total)

\* lines 814-857: the counts and the five percentages
\* variant of computeMetrics: line 834 divides on_time_tasks by len(states)
computeMetrics_PerState(sts, appList, horizon) ==
    LET count_tasks == Cardinality(EndedTasks(sts, appList))
        on_time_tasks == Cardinality(OnTimeTasks(sts, appList))
    IN  [deadline_adherence_pct |->
             IF count_tasks # 0 THEN Percent(on_time_tasks, Cardinality(sts)) ELSE Fraction(0, 1),
         violations_pct |->
             Percent(Cardinality({s \in sts : computeViolations(s, appList, horizon)}),
                     Cardinality(sts)),
         scenario_violations_pct |->
             Percent(Cardinality({s \in sts : computeScenarioViolations(s, appList, horizon)}),
                     Cardinality(sts)),
         unfeasibles_pct |->
             Percent(Cardinality({s \in sts : computeUnfeasibility(s, appList, horizon)}),
                     Cardinality(sts)),
         non_violations_pct |->
             Percent(Cardinality({s \in sts : computeNonViolations(s, appList, horizon)}),
                     Cardinality(sts)),
         num_states |-> Cardinality(sts),
         num_tasks |-> count_tasks]

computeMetrics(sts, appList, horizon) ==
    LET count_tasks == Cardinality(EndedTasks(sts, appList))
        on_time_tasks == Cardinality(OnTimeTasks(sts, appList))
    IN  [deadline_adherence_pct |->
             IF count_tasks # 0 THEN Percent(on_time_tasks, count_tasks) ELSE Fraction(0, 1),
         violations_pct |->
             Percent(Cardinality({s \in sts : computeViolations(s, appList, horizon)}),
                     Cardinality(sts)),
         scenario_violations_pct |->
             Percent(Cardinality({s \in sts : computeScenarioViolations(s, appList, horizon)}),
                     Cardinality(sts)),
         unfeasibles_pct |->
             Percent(Cardinality({s \in sts : computeUnfeasibility(s, appList, horizon)}),
                     Cardinality(sts)),
         non_violations_pct |->
             Percent(Cardinality({s \in sts : computeNonViolations(s, appList, horizon)}),
                     Cardinality(sts)),
         num_states |-> Cardinality(sts),
         num_tasks |-> count_tasks]

\* ----------------------------------------------------------------- inputs
\* a job's deadline: its duration (no slack) or the longest duration
JobKinds == {<<duration, deadline>> \in (1..MaxDuration) \X (1..MaxDuration) :
                deadline \in {duration, MaxDuration}}

\* job lists: ids 1..n in list order, as the driver's apps[0], apps[1], ...
JobLists ==
    UNION {[1..n -> JobKinds] : n \in 1..MaxJobs}

MakeApps(f) == [i \in DOMAIN f |-> App(i, f[i][1], f[i][2])]

\* RoundRobin(time_slice=10) is the driver's instance (line 987)
TimeSliceChoices == {1, 10}

\* {apps[0]: 1, apps[1]: 2, ...} is the driver's table (line 990); the second
\* table has no entry for the last job
PriorityTables(appList) ==
    {[i \in 1..n |-> [app |-> i, value |-> i]] : n \in {Len(appList), Len(appList) - 1}}

\* MultilevelFeedbackQueue(3, [10, 20, 30]) is the driver's instance (line 991)
QueueChoices == {<<3, <<10, 20, 30>>>>, <<2, <<1, 1>>>>}

Schedulers(appList) ==
    {NoParams(kind) : kind \in {"FIFO", "Fair", "EDFAll", "EDFPure",
                                "ShortestJobNext", "LeastLaxityFirst"}}
    \cup {NewRoundRobin(ts) : ts \in TimeSliceChoices}
    \cup {NewPriorityScheduler(pt) : pt \in PriorityTables(appList)}
    \cup {NewMultilevelFeedbackQueue(q[1], q[2]) : q \in QueueChoices}

\* Spark(scheduler): nothing running, nothing ended
EmptySeed == Spark(<<>>, <<>>)

\* Spark(scheduler, {apps[0]: (1, Fraction(0))}, {}) of the driver (line 997)
DriverSeed == Spark(<<[app |-> 1, value |-> <<1, Fraction(0, 1)>>]>>, <<>>)

Seeds == {EmptySeed, DriverSeed}

NoCall == [op |-> "none", pre |-> EmptySeed, app |-> 0, time |-> 0, post |-> EmptySeed,
           calls |-> 0, scheduler |-> NoParams("none"), receiver |-> EmptySeed]

InitInputs ==
    /\ \E f \in JobLists : apps = MakeApps(f)
    /\ steps \in 0..(MaxSize - Len(apps))
    /\ scheduler \in Schedulers(apps)
    /\ initial \in Seeds

\* a single timeline is also run with MultilevelFeedbackQueue(1, [1]), whose
\* only queue is the last one
TimelineInputs ==
    /\ \E f \in JobLists : apps = MakeApps(f)
    /\ steps \in 0..(MaxSize - Len(apps))
    /\ scheduler \in Schedulers(apps) \cup {NewMultilevelFeedbackQueue(1, <<1>>)}
    /\ initial \in Seeds

\* --------------------------------------------------------------- simulate
\* simulate(initial, apps, steps) has been entered: states = {initial}, the
\* outer loop is at t = 0 with newStates = set() and the inner loop not started
Init ==
    /\ InitInputs
    /\ states = {initial}
    /\ newStates = {}
    /\ pending = {initial}
    /\ t = 0
    /\ pc = "loop"
    /\ state = initial
    /\ pos = 0
    /\ last = NoCall
    /\ log = <<>>

\* one pass of the inner loop body: newStates |= nextStates(apps, state.tick(t), t).
\* The set is iterated in hash order, so any unvisited member can come next.
Visit ==
    /\ pc = "loop"
    /\ \E s \in pending :
         LET r == tick(s, scheduler, t)
         IN  /\ ~r.raised
             /\ newStates' = newStates \cup nextStates(apps, r.state, t)
             /\ scheduler' = r.scheduler
             /\ pending' = pending \ {s}
    /\ UNCHANGED <<apps, steps, initial, states, t, pc, state, pos, last, log>>

\* the tick raised: the exception leaves simulate
VisitRaises ==
    /\ pc = "loop"
    /\ \E s \in pending :
         LET r == tick(s, scheduler, t)
         IN  /\ r.raised
             /\ scheduler' = r.scheduler
    /\ pc' = "raised"
    /\ UNCHANGED <<apps, steps, initial, states, newStates, pending, t, state, pos, last, log>>

\* states = newStates, then the next t of range(0, steps + 1)
NextRound ==
    /\ pc = "loop"
    /\ pending = {}
    /\ t < steps
    /\ states' = newStates
    /\ pending' = newStates
    /\ newStates' = {}
    /\ t' = t + 1
    /\ UNCHANGED <<apps, steps, scheduler, initial, pc, state, pos, last, log>>

\* states = newStates after the last t, then return states
\* variant of Return: the loop is range(0, steps)
Return_OffByOne ==
    /\ pc = "loop"
    /\ pending = {}
    /\ t = steps - 1
    /\ states' = newStates
    /\ pc' = "done"
    /\ UNCHANGED <<apps, steps, scheduler, initial, newStates, pending, t, state, pos, last, log>>

Return ==
    /\ pc = "loop"
    /\ pending = {}
    /\ t = steps
    /\ states' = newStates
    /\ pc' = "done"
    /\ UNCHANGED <<apps, steps, scheduler, initial, newStates, pending, t, state, pos, last, log>>

Next == Visit \/ VisitRaises \/ NextRound \/ Return

Spec == Init /\ [][Next]_vars

\* ------------------------------------------------------- a single timeline
\* One path of the exploration: simulate's tick(t) on the current Spark, then
\* one branch of the nextStates recursion (for each app of the list in turn,
\* either the left operand, which calls schedule, or the right one, which
\* does not), then the next t.  The policy object serves this timeline only.
Call(op, pre, app, time, post, calls, sch, receiver) ==
    [op |-> op, pre |-> pre, app |-> app, time |-> time, post |-> post,
     calls |-> calls, scheduler |-> sch, receiver |-> receiver]

\* what the addProgress call of a tick (line 736) was given and what it did:
\* the keys of the running mapping, the jobs whose progress it changed, and
\* by how much
Service(self, sch, time) ==
    LET before == self.running
        after == IF before = <<>> THEN before ELSE addProgress(sch, before, time).running
        served == {before[i].app : i \in {n \in DOMAIN before : after[n].value # before[n].value}}
    IN  [time |-> time,
         running |-> Keys(before),
         served |-> served,
         added |-> [j \in served |-> FracSub(Get(after, j)[2], Get(before, j)[2])]]

TimelineInit ==
    /\ TimelineInputs
    /\ states = {}
    /\ newStates = {}
    /\ pending = {}
    /\ t = 0
    /\ pc = "tick"
    /\ state = initial
    /\ pos = 0
    /\ last = NoCall
    /\ log = <<>>

TimelineTick ==
    /\ pc = "tick"
    /\ LET r == tick(state, scheduler, t)
       IN  /\ ~r.raised
           /\ state' = r.state
           /\ scheduler' = r.scheduler
           /\ last' = Call("tick", state, 0, t, r.state, r.calls, scheduler,
                            tick_receiver(state, scheduler, t))
    /\ log' = Append(log, Service(state, scheduler, t))
    /\ pc' = "branch"
    /\ pos' = 1
    /\ UNCHANGED <<apps, steps, initial, states, newStates, pending, t>>

TimelineTickRaises ==
    /\ pc = "tick"
    /\ LET r == tick(state, scheduler, t)
       IN  /\ r.raised
           /\ scheduler' = r.scheduler
           /\ last' = Call("tick raised", state, 0, t, state, r.calls, scheduler,
                            tick_receiver(state, scheduler, t))
    /\ pc' = "raised"
    /\ UNCHANGED <<apps, steps, initial, states, newStates, pending, t, state, pos, log>>

TimelineArrive ==
    /\ pc = "branch"
    /\ pos <= Len(apps)
    /\ state' = schedule(state, apps[pos], t)
    /\ last' = Call("schedule", state, pos, t, schedule(state, apps[pos], t), 0, scheduler,
                     schedule_receiver(state, apps[pos], t))
    /\ pos' = pos + 1
    /\ UNCHANGED <<apps, steps, scheduler, initial, states, newStates, pending, t, pc, log>>

TimelineNoArrive ==
    /\ pc = "branch"
    /\ pos <= Len(apps)
    /\ pos' = pos + 1
    /\ UNCHANGED <<apps, steps, scheduler, initial, states, newStates, pending, t, pc, state, last, log>>

TimelineAdvance ==
    /\ pc = "branch"
    /\ pos > Len(apps)
    /\ t < steps
    /\ t' = t + 1
    /\ pc' = "tick"
    /\ UNCHANGED <<apps, steps, scheduler, initial, states, newStates, pending, state, pos, last, log>>

TimelineEnd ==
    /\ pc = "branch"
    /\ pos > Len(apps)
    /\ t = steps
    /\ pc' = "done"
    /\ UNCHANGED <<apps, steps, scheduler, initial, states, newStates, pending, t, state, pos, last, log>>

TimelineNext ==
    \/ TimelineTick
    \/ TimelineTickRaises
    \/ TimelineArrive
    \/ TimelineNoArrive
    \/ TimelineAdvance
    \/ TimelineEnd

TimelineSpec == TimelineInit /\ [][TimelineNext]_vars

\* ------------------------------------------------- a policy called directly
\* scheduler.addProgress(running, time) called by a client on a copy of the
\* running mapping of any state of a timeline, the empty mapping included
\* (tick itself never passes an empty one).
Probe ==
    /\ pc = "tick"
    /\ LET out == addProgress(scheduler, state.running, t)
       IN  /\ scheduler' = out.scheduler
           /\ last' = Call(IF out.raised THEN "addProgress raised" ELSE "addProgress",
                           state, 0, t, Spark(out.running, state.ended), 1, scheduler, state)
    /\ pc' = "probed"
    /\ UNCHANGED <<apps, steps, initial, states, newStates, pending, t, state, pos, log>>

PolicyNext == TimelineNext \/ Probe

PolicySpec == TimelineInit /\ [][PolicyNext]_vars

\* --------------------------------------- a single timeline under RoundRobin
\* The same path with one RoundRobin instance and the longest horizon for
\* every job list, so that the cursor goes round more than once.  A
\* RoundRobin tick never raises.
RoundRobinInit ==
    /\ \E f \in JobLists : apps = MakeApps(f)
    /\ steps = MaxSize - 1
    /\ scheduler \in {NewRoundRobin(ts) : ts \in TimeSliceChoices}
    /\ initial \in Seeds
    /\ states = {}
    /\ newStates = {}
    /\ pending = {}
    /\ t = 0
    /\ pc = "tick"
    /\ state = initial
    /\ pos = 0
    /\ last = NoCall
    /\ log = <<>>

RoundRobinNext ==
    \/ TimelineTick
    \/ TimelineArrive
    \/ TimelineNoArrive
    \/ TimelineAdvance
    \/ TimelineEnd

RoundRobinSpec == RoundRobinInit /\ [][RoundRobinNext]_vars

\* ------------------------------------------------- simulate under FIFO only
\* simulate takes any Spark as its seed (lines 709-713, 805-806): besides the
\* two seeds above, seeds whose jobs were submitted at or before tick 0
EarlySeeds(appList) ==
    {Spark(<<[app |-> 1, value |-> <<sub, Fraction(0, 1)>>]>>, <<>>) : sub \in {-1, 0}}
    \cup (IF Len(appList) < 2 THEN {}
          ELSE {Spark(<<[app |-> 1, value |-> <<0, Fraction(0, 1)>>],
                        [app |-> 2, value |-> <<0, Fraction(0, 1)>>]>>, <<>>),
                Spark(<<[app |-> 2, value |-> <<0, Fraction(0, 1)>>],
                        [app |-> 1, value |-> <<-1, Fraction(0, 1)>>]>>, <<>>)})

FifoInit ==
    /\ \E f \in JobLists : apps = MakeApps(f)
    /\ steps \in 0..(MaxSize - Len(apps))
    /\ scheduler = NoParams("FIFO")
    /\ initial \in Seeds \cup EarlySeeds(apps)
    /\ states = {initial}
    /\ newStates = {}
    /\ pending = {initial}
    /\ t = 0
    /\ pc = "loop"
    /\ state = initial
    /\ pos = 0
    /\ last = NoCall
    /\ log = <<>>

\* a FIFO tick never raises
FifoNext ==
    \/ Visit
    \/ NextRound
    \/ Return

FifoSpec == FifoInit /\ [][FifoNext]_vars

\* ================================================================= claims
\* every Timeline State simulate currently holds
Reachable == states \cup newStates

Present(s, j) == Has(s.running, j) \/ Has(s.ended, j)

PresentJobs(s) == Keys(s.running) \cup Keys(s.ended)

\* the submissionTime recorded for a present job
SubmissionTime(s, j) == IF Has(s.running, j) THEN Get(s.running, j)[1] ELSE Get(s.ended, j)[1]

NoDuplicateKeys(d) == \A i, j \in DOMAIN d : d[i].app = d[j].app => i = j

\* C1: in every state simulate reaches, from the empty seed or from the seed
\* with only job 1 running, a present job k > 1 has job k-1 present too
C1_DependencyOrder ==
    \A s \in Reachable :
        \A j \in PresentJobs(s) : j > 1 => Present(s, j - 1)

\* a returned terminal state in which job 2 is present behind job 1
C1_Witness ==
    /\ pc = "done"
    /\ \E s \in states : Present(s, 2) /\ Present(s, 1)

\* C2: in every state simulate reaches, no job is both running and ended,
\* every job in either mapping is a job of the job list, and it is there once
C2_DisjointAndListed ==
    \A s \in Reachable :
        /\ Keys(s.running) \cap Keys(s.ended) = {}
        /\ PresentJobs(s) \subseteq {apps[i].id : i \in DOMAIN apps}
        /\ NoDuplicateKeys(s.running)
        /\ NoDuplicateKeys(s.ended)

\* a reached state with one job ended by tick and another still running
C2_Witness ==
    \E s \in Reachable : s.running # <<>> /\ s.ended # <<>>

\* C3: from the driver's seed, a present job k > 1 is never submitted before
\* job k-1
C3_SubmissionOrder ==
    initial = DriverSeed =>
        \A s \in Reachable :
            \A j \in PresentJobs(s) :
                (j > 1 /\ Present(s, j - 1)) => SubmissionTime(s, j) >= SubmissionTime(s, j - 1)

\* C6: scenario A (one job of duration 2 and deadline 2, steps = 3, FIFO, job 1
\* seeded running at (1, 0)) returns exactly the state with nothing running
\* and job 1 ended at (1, 3), which is not a Violation
ScenarioA ==
    /\ apps = <<App(1, 2, 2)>>
    /\ steps = 3
    /\ scheduler.kind = "FIFO"
    /\ initial = DriverSeed

C6_ScenarioA ==
    (ScenarioA /\ pc = "done") =>
        /\ states = {Spark(<<>>, <<[app |-> 1, value |-> <<1, 3>>]>>)}
        /\ \A s \in states : ~computeViolations(s, apps, steps)

\* C7: scenario B (jobs 1 and 2 of duration 1 and deadline 1, steps = 2, Fair,
\* empty seed) returns a state for every arrival scenario that respects the
\* dependency order, and no state with job 2 present without job 1
ScenarioB ==
    /\ apps = <<App(1, 1, 1), App(2, 1, 1)>>
    /\ steps = 2
    /\ scheduler.kind = "Fair"
    /\ initial = EmptySeed

C7_ScenarioB ==
    (ScenarioB /\ pc = "done") =>
        /\ \E s \in states : PresentJobs(s) = {}
        /\ \A a1 \in 0..steps :
             /\ \E s \in states : PresentJobs(s) = {1} /\ SubmissionTime(s, 1) = a1
             /\ \A a2 \in a1..steps :
                  \E s \in states : /\ PresentJobs(s) = {1, 2}
                                    /\ SubmissionTime(s, 1) = a1
                                    /\ SubmissionTime(s, 2) = a2
        /\ \A s \in states : Present(s, 2) => Present(s, 1)

\* C8: for every policy, the successors simulate computes for a state at tick
\* t do not depend on which other state of the round was ticked before it
C8_OrderIndependent ==
    pc = "loop" =>
        \A s1, s2 \in pending :
            LET r1 == tick(s1, scheduler, t)
            IN  (s1 # s2 /\ ~r1.raised) =>
                    nextStates(apps, tick(s2, r1.scheduler, t).state, t)
                        = nextStates(apps, tick(s2, scheduler, t).state, t)

\* C4: schedule(job 1, t) on a state without job 1 returns the state with
\* job 1 added to running at (t, 0)
C4_FirstJobArrives ==
    (last.op = "schedule" /\ last.app = 1 /\ ~Present(last.pre, 1)) =>
        last.post = Spark(Append(last.pre.running,
                                 [app |-> 1, value |-> <<last.time, Fraction(0, 1)>>]),
                          last.pre.ended)

\* C5: schedule(job, t) returns the state unchanged when the job is present
\* or job id-1 is absent; otherwise the job is added to running at (t, 0) and
\* every other running entry and every ended entry is as in the receiver
C5_ScheduleFrame ==
    last.op = "schedule" =>
        IF Present(last.pre, last.app) \/ ~Present(last.pre, last.app - 1)
        THEN last.post = last.pre
        ELSE /\ Keys(last.post.running) = Keys(last.pre.running) \cup {last.app}
             /\ Get(last.post.running, last.app) = <<last.time, <<0, 1>>>>
             /\ \A j \in Keys(last.pre.running) :
                    Get(last.post.running, j) = Get(last.pre.running, j)
             /\ last.post.ended = last.pre.ended

\* schedule has just added a job to a state that had a job running and one ended
C5_Witness ==
    /\ last.op = "schedule"
    /\ last.post # last.pre
    /\ last.pre.running # <<>>
    /\ last.pre.ended # <<>>

\* the jobs whose progress is >= 1 in a running dict
Finished(running) == {running[i].app : i \in {n \in DOMAIN running : FracGeOne(running[n].value[2])}}

\* C9: a tick(t) that returns from a state with non-empty running has called
\* addProgress once, has moved exactly the jobs with progress >= 1 to ended
\* with (submissionTime, t), has kept the others in running, and has kept
\* the entries that were in ended
C9_TickPromotes ==
    (last.op = "tick" /\ last.pre.running # <<>>) =>
        LET after == addProgress(last.scheduler, last.pre.running, last.time).running
        IN  /\ last.calls = 1
            /\ Keys(last.post.running) = Keys(last.pre.running) \ Finished(after)
            /\ \A j \in Keys(last.post.running) :
                   Get(last.post.running, j) = Get(after, j)
            /\ Keys(last.post.ended) = Keys(last.pre.ended) \cup Finished(after)
            /\ \A j \in Finished(after) :
                   Get(last.post.ended, j) = <<Get(last.pre.running, j)[1], last.time>>
            /\ \A j \in Keys(last.pre.ended) :
                   Get(last.post.ended, j) = Get(last.pre.ended, j)

\* tick has just ended one job, left another running, and an older ended entry
\* was there before
C9_Witness ==
    /\ last.op = "tick"
    /\ last.pre.ended # <<>>
    /\ Len(last.post.ended) > Len(last.pre.ended)
    /\ last.post.running # <<>>

\* C10: tick(t) on a state with empty running returns an equal state and does
\* not call the policy
C10_TickEmptyIdentity ==
    (last.op = "tick" /\ last.pre.running = <<>>) =>
        /\ SparkEq(last.post, last.pre)
        /\ last.calls = 0
        /\ scheduler = last.scheduler

\* tick has just been applied to a state with nothing running and a job ended
C10_Witness ==
    /\ last.op = "tick"
    /\ pc = "branch"
    /\ pos = 1
    /\ last.pre.running = <<>>
    /\ last.pre.ended # <<>>

\* C11: schedule and tick leave the receiver's running and ended mappings as
\* they were before the call, whatever the policy
C11_ReceiverUnchanged ==
    last.op \in {"schedule", "tick"} => last.receiver = last.pre

\* a call has just returned a state that differs from its receiver
C11_Witness ==
    /\ last.op \in {"schedule", "tick"}
    /\ last.post # last.pre
    /\ last.pre.running # <<>>

\* every job of s is a job of n with the same submissionTime, and every ended
\* job of s is ended in n with the same (submissionTime, finishTime)
Retains(s, n) ==
    \A j \in PresentJobs(s) :
        /\ Present(n, j)
        /\ SubmissionTime(n, j) = SubmissionTime(s, j)
        /\ Has(s.ended, j) => (Has(n.ended, j) /\ Get(n.ended, j) = Get(s.ended, j))

\* the states simulate derives from s in the round of t (none when the tick raises)
Successors(s) ==
    LET r == tick(s, scheduler, t)
    IN  IF r.raised THEN {} ELSE nextStates(apps, r.state, t)

\* C12: arrivals and completions are never retracted: whenever simulate
\* takes a state s of a round, every state it derives from s keeps each job
\* of s with its submissionTime and each ended job of s with its
\* (submissionTime, finishTime) pair; by induction along a path the same
\* holds at every later tick
C12_NeverRetracted ==
    [][\A s \in pending \ pending' : \A n \in Successors(s) : Retains(s, n)]_vars

\* a state with an ended and a running job whose tick ends another job and
\* whose branching admits a new one
C12_Witness ==
    /\ pc = "loop"
    /\ \E s \in pending :
         /\ s.ended # <<>>
         /\ s.running # <<>>
         /\ \E n \in Successors(s) :
              /\ Len(n.ended) > Len(s.ended)
              /\ PresentJobs(n) # PresentJobs(s)

\* C13: one addProgress call of any of the nine policies never decreases a
\* running job's progress, never changes a submissionTime, never adds or
\* removes a key of the mapping it is given (nor reorders them), and changes
\* neither the mapping nor the policy object when the mapping is empty
C13_AddProgressFrame ==
    last.op \in {"addProgress", "addProgress raised"} =>
        LET before == last.pre.running
            after == last.post.running
        IN  /\ KeyList(after) = KeyList(before)
            /\ \A i \in DOMAIN before :
                   /\ after[i].value[1] = before[i].value[1]
                   /\ ~FracLt(after[i].value[2], before[i].value[2])
            /\ before = <<>> => (after = <<>> /\ scheduler = last.scheduler
                                  /\ last.op = "addProgress")

\* a call on two running jobs, one of them with progress already, has served a job
C13_Witness ==
    /\ last.op = "addProgress"
    /\ Len(last.pre.running) >= 2
    /\ \E i \in DOMAIN last.pre.running : last.pre.running[i].value[2][1] > 0
    /\ last.post.running # last.pre.running

\* a call on the empty mapping has returned
C13_WitnessEmpty ==
    /\ last.op = "addProgress"
    /\ last.pre.running = <<>>
    /\ last.pre.ended # <<>>

\* C14: in every state simulate reaches, every running job has a progress p
\* with 0 <= p < 1, for every policy, those serving more than nominalRate
\* per call included
C14_ProgressBelowOne ==
    \A s \in Reachable \cup pending : \A i \in DOMAIN s.running :
        LET p == s.running[i].value[2]
        IN  /\ ~FracLt(p, Fraction(0, 1))
            /\ ~FracGeOne(p)

\* under a policy that serves 10 * nominalRate per call, a state with a job
\* taken out of running and another one still in it
C14_Witness ==
    /\ scheduler.kind \in {"RoundRobin", "MultilevelFeedbackQueue"}
    /\ \/ scheduler.time_slice = 10
       \/ scheduler.time_slices = <<10, 20, 30>>
    /\ \E s \in Reachable : s.ended # <<>> /\ s.running # <<>>

\* a state with a running job that has been served and is not finished
C14_WitnessPartial ==
    \E s \in Reachable : \E i \in DOMAIN s.running : s.running[i].value[2][1] > 0

\* C15: for every state of every state set a round of simulate starts from
\* or ends with, the job list of the run and every horizon,
\* computeNonViolations is true exactly when computeViolations,
\* computeUnfeasibility and computeScenarioViolations are all false, and
\* computeScenarioViolations is never true together with computeViolations
\* or computeUnfeasibility
C15_ClassifierConsistent ==
    [][\A s \in (IF states' # states THEN states \cup states' ELSE {}) :
       \A horizon \in 0..MaxSize :
        LET V == computeViolations(s, apps, horizon)
            U == computeUnfeasibility(s, apps, horizon)
            SV == computeScenarioViolations(s, apps, horizon)
            NV == computeNonViolations(s, apps, horizon)
        IN  /\ NV <=> (~V /\ ~U /\ ~SV)
            /\ ~(SV /\ (V \/ U))]_vars

\* a returned state set with a scenario violation and with a state in which
\* a job never arrived
C15_Witness ==
    /\ pc = "done"
    /\ \E s \in states : computeScenarioViolations(s, apps, steps)
    /\ \E s \in states : computeUnfeasibility(s, apps, steps)

\* a returned state set with a late job in one state and no violation in another
C15_WitnessLate ==
    /\ pc = "done"
    /\ \E s \in states : computeViolations(s, apps, steps)
    /\ \E s \in states : computeNonViolations(s, apps, steps)

\* the running jobs of s that have no entry in the priority table of sch
Unlisted(sch, s) == {j \in Keys(s.running) : ~Has(sch.priorities, j)}

\* C16: under PriorityScheduler, a tick on a state with a running job that
\* has no entry in the priority table raises the lookup error and serves no
\* job, also when other running jobs have entries; the receiver's running and
\* ended mappings, the timeline's state and the policy object stay as they were
C16_MissingPriorityRaises ==
    (/\ last.op \in {"tick", "tick raised"}
     /\ last.scheduler.kind = "PriorityScheduler"
     /\ Unlisted(last.scheduler, last.pre) # {}) =>
        /\ last.op = "tick raised"
        /\ pc = "raised"
        /\ last.receiver = last.pre
        /\ state = last.pre
        /\ scheduler = last.scheduler

\* the tick raised on a state in which another running job has a priority
C16_Witness ==
    /\ last.op = "tick raised"
    /\ last.scheduler.kind = "PriorityScheduler"
    /\ Unlisted(last.scheduler, last.pre) # {}
    /\ Unlisted(last.scheduler, last.pre) # Keys(last.pre.running)

\* one step of simulate as the claim describes it: inside round t one not yet
\* ticked state of the round is ticked with t and then branched on (or its
\* tick raises); when all are ticked, round t + 1 starts on the states
\* collected, or after round `steps` the collected set is returned
RoundStep ==
    \/ /\ pc' = "loop" /\ t' = t /\ states' = states
       /\ \E s \in pending :
            /\ pending' = pending \ {s}
            /\ LET r == tick(s, scheduler, t)
               IN  ~r.raised /\ newStates' = newStates \cup nextStates(apps, r.state, t)
    \/ /\ pc' = "raised" /\ t' = t
       /\ \E s \in pending : tick(s, scheduler, t).raised
    \/ /\ pc' = "loop" /\ pending = {} /\ t < steps /\ t' = t + 1
       /\ states' = newStates /\ pending' = newStates /\ newStates' = {}
    \/ /\ pc' = "done" /\ pending = {} /\ t = steps /\ t' = t
       /\ states' = newStates

\* what is left to do: the rounds after t, then the states of round t not yet ticked
Decreases ==
    \/ pc' # "loop"
    \/ t' > t /\ t' <= steps
    \/ t' = t /\ Cardinality(pending') < Cardinality(pending)

\* while simulate runs it can take a step: a state of the round is left whose
\* tick returns or raises, or the round is over and the next one or the
\* return follows
CanStep ==
    \/ \E s \in pending : tick(s, scheduler, t).raised \in BOOLEAN
    \/ pending = {} /\ t <= steps

\* C17 (as stated): simulate always performs the steps + 1 rounds and returns
\* the state set of the last one: whenever it has stopped, it has returned
\* after round t = steps with every state of that round ticked
C17_AlwaysAllRounds ==
    pc # "loop" => (pc = "done" /\ t = steps /\ pending = {} /\ states = newStates)

\* C17 (amended): simulate always terminates: while it runs some step is
\* possible and every step takes it nearer to the end, the rounds are
\* t = 0, 1, ..., steps in increasing order, each round ticks every state of
\* the round once with that t before branching on arrivals, and simulate
\* either returns the state set of round `steps` or is left by the
\* exception of a tick
C17_TerminatesOrRaises ==
    /\ [](pc = "loop" => CanStep)
    /\ [](t \in 0..steps)
    /\ [][pc = "loop" /\ Decreases /\ RoundStep]_vars
    /\ [](pc = "done" => (t = steps /\ pending = {} /\ states = newStates))

\* simulate has returned after three rounds with more than one state
C17_Witness ==
    /\ pc = "done"
    /\ steps = 2
    /\ t = 2
    /\ Cardinality(states) > 1

\* 0 <= f <= 100
InPercentRange(f) == ~FracLt(f, Fraction(0, 1)) /\ ~FracLt(Fraction(100, 1), f)

\* C18: for the (non-empty) state set simulate returns, deadline_adherence_pct,
\* violations_pct, scenario_violations_pct, unfeasibles_pct and
\* non_violations_pct of computeMetrics each lie between 0 and 100 inclusive
C18_PercentagesInRange ==
    pc = "done" =>
        LET metrics == computeMetrics(states, apps, steps)
        IN  /\ states # {}
            /\ InPercentRange(metrics.deadline_adherence_pct)
            /\ InPercentRange(metrics.violations_pct)
            /\ InPercentRange(metrics.scenario_violations_pct)
            /\ InPercentRange(metrics.unfeasibles_pct)
            /\ InPercentRange(metrics.non_violations_pct)

\* a returned set with more ended tasks than states, some of them late, and
\* with violating and non-violating states
C18_Witness ==
    /\ pc = "done"
    /\ LET metrics == computeMetrics(states, apps, steps)
       IN  /\ metrics.num_tasks > metrics.num_states
           /\ FracLt(Fraction(0, 1), metrics.deadline_adherence_pct)
           /\ FracLt(metrics.deadline_adherence_pct, Fraction(100, 1))
           /\ FracLt(Fraction(0, 1), metrics.violations_pct)
           /\ FracLt(Fraction(0, 1), metrics.non_violations_pct)

\* C19: RoundRobin on a single timeline cycles fairly: between two
\* consecutive services of a job J (ticks i < k of the log, J not served in
\* between), every other job that was in running at each tick from i to k
\* is served at some tick in between; and every tick with a non-empty
\* running mapping serves one job, adding nominalRate * time_slice
C19_RoundRobinFair ==
    /\ \A i, k \in DOMAIN log : \A J \in log[i].served \cap log[k].served :
           (i < k /\ \A m \in (i + 1)..(k - 1) : J \notin log[m].served) =>
               \A X \in log[i].running \ {J} :
                   (\A m \in i..k : X \in log[m].running) =>
                       \E m \in (i + 1)..(k - 1) : X \in log[m].served
    /\ \A i \in DOMAIN log :
           log[i].running # {} =>
               \E J \in log[i].running :
                   /\ log[i].served = {J}
                   /\ log[i].added[J] = FracMulInt(nominalRate(AppOf(J)), scheduler.time_slice)

\* the jobs of a running mapping that the policy object does not track yet,
\* in the order of the mapping
RECURSIVE NewJobs(_, _)
NewJobs(keys, sch) ==
    IF keys = <<>> THEN <<>>
    ELSE IF Has(sch.app_queue, Head(keys)) THEN NewJobs(Tail(keys), sch)
         ELSE <<Head(keys)>> \o NewJobs(Tail(keys), sch)

\* the queues a call works on: those it finds, with the new jobs behind queue 0
QueuesWithNew(sch, running) ==
    [q \in DOMAIN sch.queues |->
        IF q = 1 THEN sch.queues[q] \o NewJobs(KeyList(running), sch) ELSE sch.queues[q]]

\* the lowest non-empty queue (1 for queue 0)
LowestQueue(queues) ==
    CHOOSE q \in DOMAIN queues : queues[q] # <<>> /\ \A p \in 1..(q - 1) : queues[p] = <<>>

\* C20: MultilevelFeedbackQueue on a single timeline, for every tick on a
\* non-empty running mapping: a job the policy did not track yet is placed
\* in queue 0; the call serves exactly the head of the lowest-index
\* non-empty queue i, with nominalRate * time_slices[i]; a served job that
\* stays below progress 1 is appended to queue min(i + 1, num_queues - 1)
\* and a finished one is forgotten; the queue index of a job that stays
\* tracked never decreases
C20_FeedbackQueues ==
    (/\ last.op = "tick"
     /\ last.scheduler.kind = "MultilevelFeedbackQueue"
     /\ last.pre.running # <<>>) =>
        LET before == last.scheduler
            after == scheduler
            running == last.pre.running
            service == log[Len(log)]
            queues == QueuesWithNew(before, running)
            q == LowestQueue(queues)
            i == q - 1
            J == Head(queues[q])
            clamp == IF i + 1 < before.num_queues - 1 THEN i + 1 ELSE before.num_queues - 1
            new == {NewJobs(KeyList(running), before)[n] :
                        n \in DOMAIN NewJobs(KeyList(running), before)}
        IN  /\ \A X \in new \ {J} :
                   Get(after.app_queue, X) = 0 /\ InList(after.queues[1], X)
            /\ J \in new => i = 0
            /\ service.served = {J}
            /\ service.added[J] = FracMulInt(nominalRate(AppOf(J)), before.time_slices[q])
            /\ IF Has(last.post.running, J)
               THEN /\ Get(after.app_queue, J) = clamp
                    /\ after.queues[clamp + 1] # <<>>
                    /\ after.queues[clamp + 1][Len(after.queues[clamp + 1])] = J
               ELSE /\ ~Has(after.app_queue, J)
                    /\ \A p \in DOMAIN after.queues : ~InList(after.queues[p], J)
            /\ \A X \in Keys(before.app_queue) \cap Keys(after.app_queue) :
                   Get(after.app_queue, X) >= Get(before.app_queue, X)

\* a tick has served a tracked job out of the last queue and put it back
\* there (i + 1 > num_queues - 1) while another job waits
C20_Witness ==
    /\ last.op = "tick"
    /\ last.scheduler.kind = "MultilevelFeedbackQueue"
    /\ Len(last.pre.running) >= 2
    /\ \E J \in log[Len(log)].served :
         /\ Has(last.scheduler.app_queue, J) \/ last.scheduler.num_queues = 1
         /\ Has(scheduler.app_queue, J)
         /\ Get(scheduler.app_queue, J) = scheduler.num_queues - 1
         /\ LowestQueue(QueuesWithNew(last.scheduler, last.pre.running)) = scheduler.num_queues

\* a tick has moved the served job from queue 0 to queue 1 and admitted a new job
C20_WitnessDemoted ==
    /\ last.op = "tick"
    /\ last.scheduler.kind = "MultilevelFeedbackQueue"
    /\ \E J \in log[Len(log)].served :
         Has(scheduler.app_queue, J) /\ Get(scheduler.app_queue, J) = 1
    /\ \E X \in Keys(scheduler.app_queue) : Get(scheduler.app_queue, X) = 0

\* the positions of a running mapping that hold the minimum submissionTime
Earliest(running) ==
    {i \in DOMAIN running : \A j \in DOMAIN running : running[j].value[1] >= running[i].value[1]}

\* C21: FIFO.addProgress on a non-empty running mapping adds exactly
\* nominalRate to the job with the minimum submissionTime, on ties to the
\* first of them in the mapping's order, which is the tied job with the
\* lowest id, and leaves every other entry unchanged
C21_FifoEarliest ==
    (/\ last.op = "addProgress"
     /\ last.scheduler.kind = "FIFO"
     /\ last.pre.running # <<>>) =>
        LET before == last.pre.running
            after == last.post.running
            first == CHOOSE i \in Earliest(before) : \A j \in Earliest(before) : i <= j
        IN  /\ \A j \in Earliest(before) : before[first].app <= before[j].app
            /\ Len(after) = Len(before)
            /\ after[first].app = before[first].app
            /\ after[first].value =
                   <<before[first].value[1],
                     FracAdd(before[first].value[2], nominalRate(AppOf(before[first].app)))>>
            /\ \A i \in DOMAIN before : i # first => after[i] = before[i]

\* a FIFO call that served a job of a mapping in which two jobs tie for the
\* earliest submissionTime
C21_Witness ==
    /\ last.op = "addProgress"
    /\ last.scheduler.kind = "FIFO"
    /\ Cardinality(Earliest(last.pre.running)) >= 2
    /\ last.post.running # last.pre.running

\* C22: the state set simulate builds in a round never holds two
\* structurally equal states: a state added to newStates that is equal
\* (__eq__) to a member has its running and ended entries in the same order,
\* hence the same repr and hash, and is merged with it
C22_NoEqualPair ==
    [][\A s \in newStates' \ newStates : \A o \in newStates' :
           SparkEq(s, o) => Repr(s) = Repr(o)]_vars

\* a returned set with two different states that hold the same jobs, two of
\* them ended, in running and in ended
C22_Witness ==
    /\ pc = "done"
    /\ \E s, o \in states :
         /\ s # o
         /\ Keys(s.running) = Keys(o.running)
         /\ Keys(s.ended) = Keys(o.ended)
         /\ Len(s.ended) >= 2

\* the policies that add at most nominalRate per call
AtMostNominal ==
    {"FIFO", "Fair", "EDFAll", "EDFPure", "ShortestJobNext", "LeastLaxityFirst",
     "PriorityScheduler"}

\* C23: under a policy that adds at most nominalRate per call, in every state
\* simulate reaches from the driver's seed every ended job has
\* finishTime - submissionTime >= duration, and no job with
\* submissionTime + duration > steps is in ended
C23_TurnaroundAtLeastDuration ==
    (initial = DriverSeed /\ scheduler.kind \in AtMostNominal) =>
        \A s \in Reachable : \A i \in DOMAIN s.ended :
            LET value == s.ended[i].value
                app == AppOf(s.ended[i].app)
            IN  /\ value[2] - value[1] >= app.duration
                /\ ~(value[1] + app.duration > steps)

\* every job of the list is in ended, with finishTime - submissionTime <= deadline
AllEndedOnTime(s, appList) ==
    \A i \in DOMAIN appList :
        /\ Has(s.ended, appList[i].id)
        /\ Get(s.ended, appList[i].id)[2] - Get(s.ended, appList[i].id)[1] <= appList[i].deadline

\* C24: for every state of every state set a round of simulate starts from
\* or ends with, the job list of the run and every horizon,
\* computeNonViolations is true exactly when every job of the list is in
\* ended and on time; a state with a job still running is never a NonViolation
C24_NonViolationMeaning ==
    [][\A s \in (IF states' # states THEN states \cup states' ELSE {}) :
       \A horizon \in 0..MaxSize :
           /\ computeNonViolations(s, apps, horizon) <=> AllEndedOnTime(s, apps)
           /\ s.running # <<>> => ~computeNonViolations(s, apps, horizon)]_vars

\* a returned set with a NonViolation of two jobs and with a state that has
\* no late job, no missing job and a job still running
C24_Witness ==
    /\ pc = "done"
    /\ Len(apps) >= 2
    /\ \E s \in states : computeNonViolations(s, apps, steps)
    /\ \E s \in states :
         /\ s.running # <<>>
         /\ PresentJobs(s) = {apps[i].id : i \in DOMAIN apps}
         /\ ~computeViolations(s, apps, steps)

\* how often x occurs in the list q
Occurrences(q, x) == Cardinality({n \in DOMAIN q : q[n] = x})

\* every tracked job sits once, in the queue recorded for it, and nowhere
\* else; no queue holds an untracked job
Consistent(sch) ==
    /\ \A j \in Keys(sch.app_queue) : \A q \in DOMAIN sch.queues :
           Occurrences(sch.queues[q], j) = (IF q = Get(sch.app_queue, j) + 1 THEN 1 ELSE 0)
    /\ \A q \in DOMAIN sch.queues : \A n \in DOMAIN sch.queues[q] :
           Has(sch.app_queue, sch.queues[q][n])

\* C25: with one MultilevelFeedbackQueue instance serving all states of
\* simulate, after every tick the bookkeeping is consistent, and every tick
\* on a non-empty running mapping raises the progress of exactly one running job
C25_BookkeepingConsistent ==
    [][scheduler.kind = "MultilevelFeedbackQueue" =>
          /\ Consistent(scheduler')
          /\ \A s \in pending \ pending' :
                 s.running # <<>> => Cardinality(Service(s, scheduler, t).served) = 1]_vars

\* the instance tracks a job that is not running in a state still to be
\* ticked in this round, whose running mapping is not empty
C25_Witness ==
    /\ pc = "loop"
    /\ scheduler.kind = "MultilevelFeedbackQueue"
    /\ \E s \in pending :
         /\ s.running # <<>>
         /\ \E j \in Keys(scheduler.app_queue) : ~Has(s.running, j)
         /\ \E j \in Keys(scheduler.app_queue) : Has(s.running, j)

\* s with jobs k + 1 .. k + j appended to running at (time, 0)
Extended(s, k, j, time) ==
    Spark(s.running \o [i \in 1..j |-> [app |-> k + i, value |-> <<time, Fraction(0, 1)>>]],
          s.ended)

\* C26: for the state a tick returns in simulate (job list in ascending id
\* order), with jobs 1..k present and the other m jobs absent, nextStates
\* returns exactly the m + 1 distinct states in which precisely jobs
\* k+1..k+j (j in 0..m) were added to running at the current tick; for a
\* state with no job present it returns only that state
C26_NextStatesBranches ==
    [][\A s \in pending \ pending' :
          LET r == tick(s, scheduler, t).state
              k == Cardinality(PresentJobs(r))
              m == Len(apps) - k
              result == nextStates(apps, r, t)
          IN  /\ PresentJobs(r) = 1..k
              /\ IF k = 0 THEN result = {r}
                 ELSE /\ result = {Extended(r, k, j, t) : j \in 0..m}
                      /\ Cardinality(result) = m + 1]_vars

\* a round has collected the three states nextStates returns for a state
\* with job 1 present and jobs 2 and 3 absent
C26_Witness ==
    /\ Len(apps) = 3
    /\ \E r \in newStates :
         /\ PresentJobs(r) = {1}
         /\ {Extended(r, 1, j, t) : j \in 0..2} \subseteq newStates
         /\ Cardinality({Extended(r, 1, j, t) : j \in 0..2}) = 3

\* a round has collected a state with no job present, from a state with none
C26_WitnessEmpty ==
    /\ Len(apps) >= 2
    /\ initial = EmptySeed
    /\ newStates = {EmptySeed}

\* C(n, k)
RECURSIVE Binomial(_, _)
Binomial(n, k) ==
    IF k = 0 THEN 1
    ELSE IF n = 0 THEN 0
    ELSE Binomial(n - 1, k - 1) + Binomial(n - 1, k)

\* the sum over m = 0 .. most of C(horizon + m, m)
RECURSIVE ArrivalSequences(_, _)
ArrivalSequences(horizon, most) ==
    IF most < 0 THEN 0
    ELSE Binomial(horizon + most, most) + ArrivalSequences(horizon, most - 1)

\* the ticks at which jobs 2, 3, ... of a state were submitted, in id order
ArrivalTicks(s) ==
    [i \in 1..(Cardinality(PresentJobs(s)) - 1) |-> SubmissionTime(s, i + 1)]

\* C27: for a stateless policy, a job list 1..n and the seed with only job 1
\* running, the state set simulate returns has exactly one state per
\* non-decreasing sequence of arrival ticks in 0..steps of jobs 2..k
\* (k = 1..n): its size is the sum over m = 0..n-1 of C(steps + m, m)
C27_TerminalSetSize ==
    (pc = "done" /\ initial = DriverSeed /\ scheduler.kind \in AtMostNominal) =>
        /\ Cardinality(states) = ArrivalSequences(steps, Len(apps) - 1)
        /\ \A s, o \in states : ArrivalTicks(s) = ArrivalTicks(o) => s = o
        /\ \A s \in states : \A i \in DOMAIN ArrivalTicks(s) :
               /\ ArrivalTicks(s)[i] \in 0..steps
               /\ i > 1 => ArrivalTicks(s)[i - 1] <= ArrivalTicks(s)[i]

\* simulate has returned six states for three jobs and two rounds
C27_Witness ==
    /\ pc = "done"
    /\ initial = DriverSeed
    /\ scheduler.kind \in AtMostNominal
    /\ Len(apps) = 3
    /\ steps = 1
    /\ Cardinality(states) = 6

\* the jobs of s that schedule admitted (the others came with the seed)
Admitted(s) == PresentJobs(s) \ PresentJobs(initial)

\* C28: under EDFAll, in every state simulate returns, every job admitted by
\* schedule at a tick a with a + duration <= steps is ended with finishTime
\* a + duration, and no returned state is a ScenarioViolation
C28_EdfAllOnSchedule ==
    (pc = "done" /\ scheduler.kind = "EDFAll") =>
        \A s \in states :
            /\ \A j \in Admitted(s) :
                   SubmissionTime(s, j) + AppOf(j).duration <= steps =>
                       /\ Has(s.ended, j)
                       /\ Get(s.ended, j)[2] = SubmissionTime(s, j) + AppOf(j).duration
            /\ ~computeScenarioViolations(s, apps, steps)

\* EDFAll has returned a state in which two admitted jobs that were running
\* together have ended, and one with a job admitted too late to finish
C28_Witness ==
    /\ pc = "done"
    /\ scheduler.kind = "EDFAll"
    /\ \E s \in states : \E j \in Admitted(s) :
         /\ Has(s.ended, j)
         /\ AppOf(j).duration = 2
         /\ Has(s.ended, 1)
         /\ Get(s.ended, 1)[2] > Get(s.ended, j)[1]
    /\ \E s \in states : \E j \in Admitted(s) : Has(s.running, j)

\* the running jobs of s that have been served
Started(s) == {i \in DOMAIN s.running : s.running[i].value[2][1] > 0}

SeedSubmittedEarly == \A i \in DOMAIN initial.running : initial.running[i].value[1] <= 0

\* C29: under FIFO, from a seed whose jobs all have submissionTime <= 0, every
\* state simulate holds has at most one running job with progress > 0
C29_FifoNonPreemptive ==
    (scheduler.kind = "FIFO" /\ SeedSubmittedEarly) =>
        \A s \in Reachable : Cardinality(Started(s)) <= 1

\* after round 0, a state holds exactly one started job next to an unserved
\* job that schedule admitted at a tick >= 1
C29_Witness ==
    /\ scheduler.kind = "FIFO"
    /\ SeedSubmittedEarly
    /\ initial.running # <<>>
    /\ t >= 1
    /\ \E s \in newStates :
         /\ Len(s.running) >= 2
         /\ Cardinality(Started(s)) = 1
         /\ \E i \in DOMAIN s.running : s.running[i].value[1] > 0

\* the ended (state, job) pairs computeMetrics does not count as on time
LateTasks(sts, appList) == EndedTasks(sts, appList) \ OnTimeTasks(sts, appList)

\* C30: of the states simulate returns, a state is a Violation exactly when
\* it holds an ended job that computeMetrics does not count as on time; and
\* when some (state, job) pair has ended, deadline_adherence_pct is 100
\* exactly when violations_pct is 0
C30_MetricsAgreeWithClassifier ==
    pc = "done" =>
        LET m == computeMetrics(states, apps, steps)
        IN  /\ \A s \in states :
                   computeViolations(s, apps, steps)
                       <=> \E pair \in LateTasks(states, apps) : pair[1] = s
            /\ m.num_tasks > 0 =>
                   (m.deadline_adherence_pct = Fraction(100, 1)
                        <=> m.violations_pct = Fraction(0, 1))

\* simulate has returned a set with a Violation, a state whose ended jobs are
\* all on time, and a job that ended exactly at its deadline
C30_Witness ==
    /\ pc = "done"
    /\ \E s \in states : computeViolations(s, apps, steps)
    /\ \E s \in states : s.ended # <<>> /\ ~computeViolations(s, apps, steps)
    /\ \E pair \in OnTimeTasks(states, apps) :
           LET value == Get(pair[1].ended, apps[pair[2]].id)
           IN  value[2] - value[1] = apps[pair[2]].deadline
    /\ computeMetrics(states, apps, steps).deadline_adherence_pct # Fraction(100, 1)

\* simulate has returned a set with ended jobs, all of them on time
C30_WitnessAllOnTime ==
    /\ pc = "done"
    /\ computeMetrics(states, apps, steps).num_tasks > 1
    /\ computeMetrics(states, apps, steps).deadline_adherence_pct = Fraction(100, 1)
    /\ computeMetrics(states, apps, steps).violations_pct = Fraction(0, 1)

====
